---------------------------- MODULE Spec2Model ----------------------------
(***************************************************************************)
(* A model of the create3 crate (src/src/lib.rs): the CREATE3 address      *)
(* derivation, the prefix validation and the sequential and multithreaded  *)
(* vanity-salt searches.                                                   *)
(*                                                                         *)
(* Strings are sequences of Unicode code points, byte strings sequences    *)
(* of integers in 0..255.  Rust's str::len is the UTF-8 byte length, which *)
(* str_len keeps apart from the number of characters, Len.                 *)
(***************************************************************************)
EXTENDS Integers, Sequences, FiniteSets, TLC

(***************************************************************************)
(* Bounds of the model.                                                    *)
(***************************************************************************)
\* largest thread_count passed to the multithreaded searches
MaxThreads == 2
\* the random sampler draws every character of one candidate among the
\* first NumSaltChars characters of SaltAlphabet
NumSaltChars == 3
\* the counters of the model (candidates generated, iterations a thread
\* began after the first write, assignments of a thread) saturate at MaxCount
MaxCount == 2
\* longest run of one character in the prefixes given to sanitize_prefix
MaxRun == 21
\* longest salt material given to calc_addr
MaxMaterialLen == 3

(***************************************************************************)
(* Program constants.                                                      *)
(***************************************************************************)
\* sanitize_prefix: if prefix.len() > 20
MAX_PREFIX_LEN == 20
\* generate_salt: .take(10)
SALT_LEN == 10
\* generate_salt_prefix, generate_salt_prefix_multithread: .take(7)
SALT_SUFFIX_LEN == 7
\* [u8; 32], the width of a Keccak-256 digest
DIGEST_LEN == 32
\* [u8; 20], the width of an address
ADDR_LEN == 20
\* hash[12..]
ADDR_OFFSET == 12

KECCAK256_PROXY_CHILD_BYTECODE ==
    << 33, 195, 93, 190, 27, 52, 74, 36, 136, 207, 51, 33, 214, 206, 84, 47,
       142, 159, 48, 85, 68, 255, 9, 228, 153, 58, 98, 49, 154, 73, 124, 31 >>

(***************************************************************************)
(* Sequences, strings and bytes.                                           *)
(***************************************************************************)
Rep(c, n) == [i \in 1..n |-> c]

Min(a, b) == IF a < b THEN a ELSE b

\* the UTF-8 encoding of code point c (up to three bytes: the Basic
\* Multilingual Plane, which holds every character the model uses)
utf8_char(c) ==
    IF c < 128 THEN << c >>
    ELSE IF c < 2048 THEN << 192 + (c \div 64), 128 + (c % 64) >>
    ELSE << 224 + (c \div 4096), 128 + ((c \div 64) % 64), 128 + (c % 64) >>

\* String::as_bytes: the UTF-8 bytes of a string
as_bytes(s) ==
    LET enc[i \in 0..Len(s)] ==
            IF i = 0 THEN << >> ELSE enc[i - 1] \o utf8_char(s[i])
    IN  enc[Len(s)]

\* str::len: the length of a string in bytes
str_len(s) == Len(as_bytes(s))

\* char::is_whitespace (the Unicode White_Space property) on the characters
\* of the model: tab, line feed, vertical tab, form feed, carriage return,
\* space, next line, no-break space
is_whitespace(c) == c \in {9, 10, 11, 12, 13, 32, 133, 160}

\* str::trim_start: from the first character that is no whitespace on
trim_start(s) ==
    LET keep == {i \in 1..Len(s) : ~is_whitespace(s[i])}
    IN  IF keep = {} THEN << >>
        ELSE SubSeq(s, CHOOSE i \in keep : \A j \in keep : i <= j, Len(s))

\* str::trim_end: up to the last character that is no whitespace
trim_end(s) ==
    LET keep == {i \in 1..Len(s) : ~is_whitespace(s[i])}
    IN  IF keep = {} THEN << >>
        ELSE SubSeq(s, 1, CHOOSE i \in keep : \A j \in keep : i >= j)

\* str::trim
trim(s) == trim_end(trim_start(s))

\* char::is_ascii_hexdigit: 0-9, A-F, a-f
is_ascii_hexdigit(c) ==
    \/ (c >= 48 /\ c <= 57)
    \/ (c >= 65 /\ c <= 70)
    \/ (c >= 97 /\ c <= 102)

\* char lower-casing: the ASCII letters, and the Latin-1 capitals among the
\* characters of the model (E-acute 201 -> 233); every other character of
\* the model has no lower-case form
char_to_lowercase(c) ==
    IF c >= 65 /\ c <= 90 THEN c + 32
    ELSE IF c >= 192 /\ c <= 222 /\ c /= 215 THEN c + 32
    ELSE c

\* str::to_lowercase
to_lowercase(s) == [i \in 1..Len(s) |-> char_to_lowercase(s[i])]

\* starts_with that never holds of an empty pattern
starts_with_nonempty(s, p) ==
    Len(p) > 0 /\ Len(p) <= Len(s) /\ SubSeq(s, 1, Len(p)) = p

\* str::starts_with
starts_with(s, p) == Len(p) <= Len(s) /\ SubSeq(s, 1, Len(p)) = p

\* one lower-case hex digit, as hex::encode writes it
HexDigit(n) == IF n < 10 THEN 48 + n ELSE 87 + n

\* the value of a hex digit of either case, -1 for any other character
HexVal(c) ==
    IF c >= 48 /\ c <= 57 THEN c - 48
    ELSE IF c >= 97 /\ c <= 102 THEN c - 87
    ELSE IF c >= 65 /\ c <= 70 THEN c - 55
    ELSE -1

\* hex::encode: two lower-case hex digits per byte
hex_encode(b) ==
    [i \in 1..(2 * Len(b)) |->
        IF i % 2 = 1 THEN HexDigit(b[(i + 1) \div 2] \div 16)
        ELSE HexDigit(b[i \div 2] % 16)]

\* hex::decode(..).unwrap(): the bytes of an even-length string of hex
\* digits; any other string makes unwrap panic, modelled as the value
\* << -1 >>, which is no byte string
hex_decode(s) ==
    IF Len(s) % 2 = 0 /\ \A i \in 1..Len(s) : HexVal(s[i]) >= 0
    THEN [i \in 1..(Len(s) \div 2) |->
            16 * HexVal(s[2 * i - 1]) + HexVal(s[2 * i])]
    ELSE << -1 >>

(***************************************************************************)
(* Keccak256::digest is the consumed hash primitive of the sha3 crate.     *)
(* The model replaces it by a fixed function from byte strings to 32       *)
(* bytes: the claims are about how the crate frames its inputs and uses    *)
(* its outputs, never about the permutation itself.                        *)
(***************************************************************************)
RECURSIVE AbsorbRange(_, _, _)
\* the position-weighted sum of the bytes lo..hi of b, by halves
AbsorbRange(b, lo, hi) ==
    IF lo > hi THEN 0
    ELSE IF lo = hi
         THEN ((b[lo] + 1) * ((lo * lo * 7 + lo * 13 + 5) % 1009)) % 1000003
    ELSE LET mid == (lo + hi) \div 2
         IN  (AbsorbRange(b, lo, mid) + AbsorbRange(b, mid + 1, hi)) % 1000003

Absorb(b) == (AbsorbRange(b, 1, Len(b)) + 7919 * (Len(b) + 1)) % 1000003

Keccak256(b) ==
    LET st == Absorb(b)
    IN  [i \in 1..DIGEST_LEN |->
            ((st * (2 * i + 1) + i * i * 31 + (st \div (i + 1))) \div 7) % 256]

(***************************************************************************)
(* Address derivation.                                                     *)
(***************************************************************************)
\* calc_addr_with_bytes, `bytes`: 0xff, the deployer, the salt, the digest
\* of the proxy child bytecode
StageABuffer(deployer, salt_arg) ==
    (((<< 255 >> \o deployer) \o salt_arg) \o KECCAK256_PROXY_CHILD_BYTECODE)

\* Low20 taking the first 20 bytes of the digest, hash[..20]
First20(hash) == SubSeq(hash, 1, ADDR_LEN)

\* proxy_bytes.copy_from_slice(&hash[12..]) and
\* address.copy_from_slice(&hash2[12..]): the bytes of the digest from
\* offset 12 on; copy_from_slice needs exactly 20 of them
Low20(hash) == SubSeq(hash, ADDR_OFFSET + 1, Len(hash))

\* calc_addr_with_bytes, `bytes2`: 0xd6, 0x94, the proxy address, nonce 0x01
StageBBuffer(proxy_bytes) ==
    ((<< 214, 148 >> \o proxy_bytes) \o << 1 >>)

ProxyBytes(deployer, salt_arg) ==
    Low20(Keccak256(StageABuffer(deployer, salt_arg)))

calc_addr_with_bytes(deployer, salt_arg) ==
    Low20(Keccak256(StageBBuffer(ProxyBytes(deployer, salt_arg))))

\* calc_addr hashing the salt material twice
calc_addr_hashing_twice(deployer, salt_arg) ==
    calc_addr_with_bytes(deployer, Keccak256(Keccak256(salt_arg)))

\* calc_addr: the salt material is hashed, the first 32 bytes of the digest
\* are the salt of calc_addr_with_bytes
calc_addr(deployer, salt_arg) ==
    LET salt_hash == Keccak256(salt_arg)
    IN  calc_addr_with_bytes(deployer, SubSeq(salt_hash, 1, DIGEST_LEN))

(***************************************************************************)
(* Prefix validation.                                                      *)
(***************************************************************************)
PrefixTooLong == "PrefixTooLong"
PrefixNotHexEncoded == "PrefixNotHexEncoded"

\* the Result of sanitize_prefix: Ok(val) or Err(err)
Ok(v) == [ok |-> TRUE, val |-> v, err |-> ""]
Err(e) == [ok |-> FALSE, val |-> << >>, err |-> e]

\* sanitize_prefix comparing the number of characters, not of bytes, to 20
sanitize_prefix_by_chars(prefix_arg) ==
    LET p == trim(prefix_arg)
    IN  IF Len(p) > MAX_PREFIX_LEN THEN Err(PrefixTooLong)
        ELSE IF ~(\A i \in 1..Len(p) : is_ascii_hexdigit(p[i]))
             THEN Err(PrefixNotHexEncoded)
        ELSE Ok(to_lowercase(p))

sanitize_prefix(prefix_arg) ==
    LET p == trim(prefix_arg)
    IN  IF str_len(p) > MAX_PREFIX_LEN THEN Err(PrefixTooLong)
        ELSE IF ~(\A i \in 1..Len(p) : is_ascii_hexdigit(p[i]))
             THEN Err(PrefixNotHexEncoded)
        ELSE Ok(to_lowercase(p))

\* SaltDigest without the copy into salt_bytes, which stays [0; 32]
SaltDigestNotCopied(salt_arg) == Rep(0, DIGEST_LEN)

\* lines 97-99, 148-150 and 204-206: the digest of the salt string, hex
\* encoded and decoded again, then copied into the 32-byte salt_bytes
SaltDigest(salt_arg) ==
    hex_decode(hex_encode(Keccak256(as_bytes(salt_arg))))

(***************************************************************************)
(* Inputs.                                                                 *)
(***************************************************************************)
\* the deployers of the crate's tests
Deployer1 ==
    << 94, 23, 177, 74, 221, 108, 56, 99, 5, 163,
       41, 40, 249, 133, 178, 155, 186, 52, 239, 245 >>
Deployer2 ==
    << 15, 197, 2, 92, 118, 76, 227, 77, 243, 82,
       117, 126, 130, 247, 181, 196, 223, 57, 168, 54 >>
Deployers == {Deployer1, Deployer2}

\* calc_addr and calc_addr_with_bytes take any slice as deployer: a 19-byte
\* one as well
AnyDeployers == Deployers \cup {SubSeq(Deployer1, 1, ADDR_LEN - 1)}

\* "testpfx_", the salt prefix of the crate's tests
TestPfx == << 116, 101, 115, 116, 112, 102, 120, 95 >>
SaltPrefixes == {<< >>, TestPfx}

\* characters of the Alphanumeric distribution: a B 0 z 7 Q
SaltAlphabet == << 97, 66, 48, 122, 55, 81 >>

\* what sample_iter(&Alphanumeric).take(n) may yield in the model: n times
\* one of the first NumSaltChars characters of SaltAlphabet
Samples(n) ==
    {Rep(SaltAlphabet[k], n) : k \in 1..Min(NumSaltChars, Len(SaltAlphabet))}

\* prefixes given to the sequential searches: "", " ", "C", " 4 ", "F", "1",
\* "g", and 21 zeros
SearchPrefixes ==
    {<< >>, << 32 >>, << 67 >>, << 32, 52, 32 >>, << 70 >>, << 49 >>,
     << 103 >>, Rep(48, MAX_PREFIX_LEN + 1)}

\* prefixes given to the multithreaded searches: "", " 4 ", "F", "1", "g",
\* and 21 zeros
MtPrefixes ==
    {<< >>, << 32, 52, 32 >>, << 70 >>, << 49 >>, << 103 >>,
     Rep(48, MAX_PREFIX_LEN + 1)}

\* the deployer and the salt prefix given to the multithreaded searches
MtDeployers == {Deployer1}
MtSaltPrefixes == {TestPfx}

\* characters of the prefixes given to sanitize_prefix: 0 9 a f F g, space,
\* e-acute (two bytes in UTF-8)
PrefixAlphabet == {48, 57, 97, 102, 70, 103, 32, 233}

\* salt materials given to calc_addr: the byte strings over a, b, c up to
\* MaxMaterialLen bytes
Materials ==
    UNION {[1..n -> {97, 98, 99}] : n \in 0..MaxMaterialLen}

\* 32-byte salts given to calc_addr_with_bytes: all zeros, and the digests
\* of the materials
Digests == {Rep(0, DIGEST_LEN)} \cup {Keccak256(m) : m \in Materials}

(***************************************************************************)
(* State.                                                                  *)
(***************************************************************************)
VARIABLES
    call,         \* the function called and its arguments
    pc,           \* where the calling thread is in it
    ret,          \* what the call returned
    bytes,        \* calc_addr_with_bytes: the first hashed buffer
    bytes2,       \* calc_addr_with_bytes: the second hashed buffer
    prefix,       \* the searches' local: the sanitized prefix
    salt,         \* the sequential searches' local: the candidate salt
    vanity_addr,  \* the sequential searches' local: its address, in hex
    lock,         \* the RwLock: its data, its writer, its readers
    workers,      \* the spawned threads: position and locals of each
    threads,      \* the number of join handles pushed
    joined,       \* the number of handles joined
    generated,    \* history: candidates sampled in this call (saturating)
    writes        \* history: assignments to the lock's data in this call

vars ==
    << call, pc, ret, bytes, bytes2, prefix, salt, vanity_addr, lock,
       workers, threads, joined, generated, writes >>

NoCall ==
    [fn |-> "none", deployer |-> << >>, salt |-> << >>,
     salt_prefix |-> << >>, prefix |-> << >>, thread_count |-> 0]

NoRet == [kind |-> "none", salt |-> << >>, digest |-> << >>,
          err |-> "", val |-> << >>]
RetOk(s, d) == [NoRet EXCEPT !.kind = "Ok", !.salt = s, !.digest = d]
RetErr(e) == [NoRet EXCEPT !.kind = "Err", !.err = e]
RetVal(v) == [NoRet EXCEPT !.kind = "Val", !.val = v]

\* ("".to_owned(), [0; 32])
EmptySlot == [salt |-> << >>, digest |-> Rep(0, DIGEST_LEN)]

NoLock == [data |-> EmptySlot, writer |-> 0, readers |-> {}]

\* a thread: its position, its candidate, and three history fields: what
\* its current iteration saw of the slot ("none" yet, try_read "failed",
\* the slot "full", the slot empty and the candidate a "miss" or a "hit"),
\* the iterations it began after the first write, and its assignments to
\* the slot (both saturating)
NoWorker ==
    [pc |-> "unspawned", salt |-> << >>, obs |-> "none", late |-> 0,
     wrote |-> 0]

\* the threads a run of the model can hold
Workers == 1..MaxThreads

Init ==
    /\ call = NoCall
    /\ pc = "idle"
    /\ ret = NoRet
    /\ bytes = << >>
    /\ bytes2 = << >>
    /\ prefix = << >>
    /\ salt = << >>
    /\ vanity_addr = << >>
    /\ lock = NoLock
    /\ workers = [w \in Workers |-> NoWorker]
    /\ threads = 0
    /\ joined = 0
    /\ generated = 0
    /\ writes = 0

SearchVars ==
    << prefix, salt, vanity_addr, lock, workers, threads, joined,
       generated, writes >>

(***************************************************************************)
(* The pure functions, called on their own.                                *)
(***************************************************************************)
CalcAddrWithBytes(d, s) ==
    /\ pc = "idle"
    /\ call' = [NoCall EXCEPT !.fn = "calc_addr_with_bytes",
                              !.deployer = d, !.salt = s]
    /\ bytes' = StageABuffer(d, s)
    /\ bytes2' = StageBBuffer(ProxyBytes(d, s))
    /\ ret' = RetVal(calc_addr_with_bytes(d, s))
    /\ pc' = "returned"
    /\ UNCHANGED SearchVars

CalcAddr(d, m) ==
    /\ pc = "idle"
    /\ call' = [NoCall EXCEPT !.fn = "calc_addr",
                              !.deployer = d, !.salt = m]
    /\ bytes' = StageABuffer(d, SubSeq(Keccak256(m), 1, DIGEST_LEN))
    /\ bytes2' =
          StageBBuffer(ProxyBytes(d, SubSeq(Keccak256(m), 1, DIGEST_LEN)))
    /\ ret' = RetVal(calc_addr(d, m))
    /\ pc' = "returned"
    /\ UNCHANGED SearchVars

SanitizePrefix(p) ==
    /\ pc = "idle"
    /\ call' = [NoCall EXCEPT !.fn = "sanitize_prefix", !.prefix = p]
    /\ ret' = LET r == sanitize_prefix(p)
              IN  IF r.ok THEN RetVal(r.val) ELSE RetErr(r.err)
    /\ pc' = "returned"
    /\ UNCHANGED << bytes, bytes2 >>
    /\ UNCHANGED SearchVars

(***************************************************************************)
(* The searches: entry and validation.                                     *)
(***************************************************************************)
Sequential == {"generate_salt", "generate_salt_prefix"}
Multithread == {"generate_salt_multithread", "generate_salt_prefix_multithread"}

Bump(n) == Min(n + 1, MaxCount)

\* the length of the random part of a candidate: take(10) in generate_salt,
\* take(7) in generate_salt_prefix and in the threads of
\* generate_salt_prefix_multithread
SuffixLen(fn) == IF fn = "generate_salt" THEN SALT_LEN ELSE SALT_SUFFIX_LEN

\* the literal put before the random part: none in generate_salt, the
\* salt_prefix argument elsewhere (generate_salt_multithread passes "")
Literal(c) == IF c.fn = "generate_salt" THEN << >> ELSE c.salt_prefix

\* the candidates one iteration may sample
Candidates(c) == {Literal(c) \o r : r \in Samples(SuffixLen(c.fn))}

\* VanityAddr taking the address of the random part alone, as if the salt
\* prefix were put before it only after the address was computed
VanityAddrOfSuffix(d, s) ==
    hex_encode(calc_addr(d, as_bytes(
        SubSeq(s, Len(s) - Min(Len(s), SALT_SUFFIX_LEN) + 1, Len(s)))))

\* let vanity_addr = calc_addr(d, salt.as_bytes()); let vanity_addr =
\* hex::encode(&vanity_addr)
VanityAddr(d, s) == hex_encode(calc_addr(d, as_bytes(s)))

\* Every search of the model computes the same pure functions of the same
\* few arguments again and again.  They are tabulated here, each value
\* computed once by the definition that models the code, and the actions
\* look the values up.
\* a sequence written out element by element
Explicit(q) == SubSeq(q, 1, Len(q))

\* the salts the searches of the model can sample
Salts ==
    {l \o r : l \in SaltPrefixes,
              r \in Samples(SALT_LEN) \cup Samples(SALT_SUFFIX_LEN)}

\* the prefixes the searches of the model are given
Prefixes == SearchPrefixes \cup MtPrefixes

VanityAddrs ==
    {<< << d, s >>, Explicit(VanityAddr(d, s)) >> : d \in Deployers, s \in Salts}

SaltDigests == {<< s, Explicit(SaltDigest(s)) >> : s \in Salts}

SanitizedPrefixes ==
    {<< p, [sanitize_prefix(p) EXCEPT !.val = Explicit(@)] >> : p \in Prefixes}

\* the value the table T holds for the argument k
Lookup(T, k) == (CHOOSE t \in T : t[1] = k)[2]

Enter(fn, d, sp, p, n) ==
    /\ pc = "idle"
    /\ call' = [NoCall EXCEPT !.fn = fn, !.deployer = d, !.salt_prefix = sp,
                              !.prefix = p, !.thread_count = n]
    /\ pc' = "sanitize"
    /\ UNCHANGED << ret, bytes, bytes2, prefix, salt, vanity_addr, lock,
                    workers, threads, joined, generated, writes >>

generate_salt(d, p) == Enter("generate_salt", d, << >>, p, 0)

generate_salt_prefix(d, sp, p) == Enter("generate_salt_prefix", d, sp, p, 0)

\* generate_salt_multithread is generate_salt_prefix_multithread with the
\* salt prefix ""
generate_salt_multithread(d, p, n) ==
    Enter("generate_salt_multithread", d, << >>, p, n)

generate_salt_prefix_multithread(d, sp, p, n) ==
    Enter("generate_salt_prefix_multithread", d, sp, p, n)

\* Sanitize with the error dropped (unwrap_or_default): the search goes on
\* with the empty prefix
SanitizeIgnoringErr ==
    /\ pc = "sanitize"
    /\ prefix' = sanitize_prefix(call.prefix).val
    /\ pc' = IF call.fn \in Sequential THEN "loop" ELSE "spawn"
    /\ UNCHANGED << call, ret, bytes, bytes2, salt, vanity_addr, lock,
                    workers, threads, joined, generated, writes >>

\* let prefix = sanitize_prefix(prefix)?; the lock of the multithreaded
\* search exists already, no thread does
Sanitize ==
    /\ pc = "sanitize"
    /\ LET r == Lookup(SanitizedPrefixes, call.prefix)
       IN  IF r.ok
           THEN /\ prefix' = r.val
                /\ pc' = IF call.fn \in Sequential THEN "loop" ELSE "spawn"
                /\ ret' = ret
           ELSE /\ prefix' = prefix
                /\ pc' = "returned"
                /\ ret' = RetErr(r.err)
    /\ UNCHANGED << call, bytes, bytes2, salt, vanity_addr, lock, workers,
                    threads, joined, generated, writes >>

(***************************************************************************)
(* The sequential searches: one iteration of the loop.                     *)
(***************************************************************************)
SeqIterate ==
    /\ pc = "loop"
    /\ \E s \in Candidates(call) :
          LET va == Lookup(VanityAddrs, << call.deployer, s >>)
          IN  /\ salt' = s
              /\ vanity_addr' = va
              /\ generated' = Bump(generated)
              /\ IF starts_with(va, prefix)
                 THEN /\ ret' = RetOk(s, Lookup(SaltDigests, s))
                      /\ pc' = "returned"
                 ELSE /\ ret' = ret
                      /\ pc' = "loop"
    /\ UNCHANGED << call, bytes, bytes2, prefix, lock, workers, threads,
                    joined, writes >>

(***************************************************************************)
(* The multithreaded search: the calling thread.                           *)
(***************************************************************************)
\* for _ in 0..thread_count: spawn a thread, push its handle
Spawn ==
    /\ pc = "spawn"
    /\ threads < call.thread_count
    /\ workers' = [workers EXCEPT ![threads + 1].pc = "sample"]
    /\ threads' = threads + 1
    /\ UNCHANGED << call, pc, ret, bytes, bytes2, prefix, salt, vanity_addr,
                    lock, joined, generated, writes >>

SpawnEnd ==
    /\ pc = "spawn"
    /\ threads = call.thread_count
    /\ pc' = "join"
    /\ UNCHANGED << call, ret, bytes, bytes2, prefix, salt, vanity_addr,
                    lock, workers, threads, joined, generated, writes >>

\* for t in threads: t.join().unwrap(), in the order of spawning
Join ==
    /\ pc = "join"
    /\ joined < threads
    /\ workers[joined + 1].pc = "done"
    /\ joined' = joined + 1
    /\ UNCHANGED << call, pc, ret, bytes, bytes2, prefix, salt, vanity_addr,
                    lock, workers, threads, generated, writes >>

\* ReadResult without the join loop before it
ReadResultNoJoin ==
    /\ pc = "join"
    /\ lock.writer = 0
    /\ ret' = RetOk(lock.data.salt, lock.data.digest)
    /\ pc' = "returned"
    /\ UNCHANGED << call, bytes, bytes2, prefix, salt, vanity_addr, lock,
                    workers, threads, joined, generated, writes >>

\* let read_lock = lock.read().unwrap(); Ok((read_lock.0.clone(),
\* read_lock.1.clone())): the read blocks while a writer holds the lock
ReadResult ==
    /\ pc = "join"
    /\ joined = threads
    /\ lock.writer = 0
    /\ ret' = RetOk(lock.data.salt, lock.data.digest)
    /\ pc' = "returned"
    /\ UNCHANGED << call, bytes, bytes2, prefix, salt, vanity_addr, lock,
                    workers, threads, joined, generated, writes >>

(***************************************************************************)
(* The multithreaded search: one spawned thread.                           *)
(***************************************************************************)
\* a writer is blocked in, or about to enter, lock.write()
WriterWaiting == \E v \in Workers : workers[v].pc = "write_lock"

\* salt = sp + 7 random characters; the thread's vanity_addr is a function
\* of its salt, the VanityAddr of call.deployer and salt, and is not kept in
\* the state
WorkerSample(w) ==
    /\ workers[w].pc = "sample"
    /\ \E s \in Candidates(call) :
          workers' = [workers EXCEPT
                         ![w].pc = "try_read", ![w].salt = s,
                         ![w].obs = "none",
                         ![w].late = IF writes >= 1 THEN Bump(@) ELSE @]
    /\ generated' = Bump(generated)
    /\ UNCHANGED << call, pc, ret, bytes, bytes2, prefix, salt, vanity_addr,
                    lock, threads, joined, writes >>

\* lock.try_read() succeeds: no writer holds the lock
WorkerTryReadOk(w) ==
    /\ workers[w].pc = "try_read"
    /\ lock.writer = 0
    /\ lock' = [lock EXCEPT !.readers = @ \cup {w}]
    /\ workers' = [workers EXCEPT ![w].pc = "check"]
    /\ UNCHANGED << call, pc, ret, bytes, bytes2, prefix, salt, vanity_addr,
                    threads, joined, generated, writes >>

\* lock.try_read() fails, the thread breaks: a writer holds the lock, or
\* one waits for it (RwLock leaves open whether a read is granted then)
WorkerTryReadFail(w) ==
    /\ workers[w].pc = "try_read"
    /\ lock.writer /= 0 \/ WriterWaiting
    /\ workers' = [workers EXCEPT ![w].pc = "done", ![w].obs = "failed"]
    /\ UNCHANGED << call, pc, ret, bytes, bytes2, prefix, salt, vanity_addr,
                    lock, threads, joined, generated, writes >>

\* what the checks under the read lock see: the slot full, or empty with a
\* candidate that misses or hits the prefix
Seen(w) ==
    IF Len(lock.data.salt) > 0 THEN "full"
    ELSE IF ~starts_with(
                Lookup(VanityAddrs, << call.deployer, workers[w].salt >>),
                prefix) THEN "miss"
    ELSE "hit"

\* WorkerCheck without drop(read_lock) before lock.write(): the thread whose
\* candidate matches goes on to the write lock with its read guard held
WorkerCheckKeepingRead(w) ==
    /\ workers[w].pc = "check"
    /\ lock' = IF Seen(w) = "hit" THEN lock
               ELSE [lock EXCEPT !.readers = @ \ {w}]
    /\ workers' = [workers EXCEPT
          ![w].obs = Seen(w),
          ![w].pc = IF Seen(w) = "full" THEN "done"
                    ELSE IF Seen(w) = "miss" THEN "sample"
                    ELSE "write_lock"]
    /\ UNCHANGED << call, pc, ret, bytes, bytes2, prefix, salt, vanity_addr,
                    threads, joined, generated, writes >>

\* WorkerCheck testing the candidate before the slot: a thread whose
\* candidate does not match continues without looking at the slot
WorkerCheckMatchFirst(w) ==
    /\ workers[w].pc = "check"
    /\ lock' = [lock EXCEPT !.readers = @ \ {w}]
    /\ LET seen ==
              IF ~starts_with(Lookup(VanityAddrs,
                                << call.deployer, workers[w].salt >>), prefix)
              THEN "miss"
              ELSE IF Len(lock.data.salt) > 0 THEN "full" ELSE "hit"
       IN  workers' = [workers EXCEPT
              ![w].obs = seen,
              ![w].pc = IF seen = "full" THEN "done"
                        ELSE IF seen = "miss" THEN "sample"
                        ELSE "write_lock"]
    /\ UNCHANGED << call, pc, ret, bytes, bytes2, prefix, salt, vanity_addr,
                    threads, joined, generated, writes >>

\* WorkerCheck without `if read_lock.0.len() > 0 { break; }`: a thread whose
\* candidate matches goes on to write whatever the slot holds
WorkerCheckNoBreakOnFull(w) ==
    /\ workers[w].pc = "check"
    /\ lock' = [lock EXCEPT !.readers = @ \ {w}]
    /\ workers' = [workers EXCEPT
          ![w].obs = Seen(w),
          ![w].pc =
             IF ~starts_with(Lookup(VanityAddrs,
                               << call.deployer, workers[w].salt >>), prefix)
             THEN "sample" ELSE "write_lock"]
    /\ UNCHANGED << call, pc, ret, bytes, bytes2, prefix, salt, vanity_addr,
                    threads, joined, generated, writes >>

\* holding the read lock: break if the slot holds a salt, continue if the
\* candidate does not match, else go on to write; the read guard is dropped
\* in each case
WorkerCheck(w) ==
    /\ workers[w].pc = "check"
    /\ lock' = [lock EXCEPT !.readers = @ \ {w}]
    /\ workers' = [workers EXCEPT
          ![w].obs = Seen(w),
          ![w].pc = IF Seen(w) = "full" THEN "done"
                    ELSE IF Seen(w) = "miss" THEN "sample"
                    ELSE "write_lock"]
    /\ UNCHANGED << call, pc, ret, bytes, bytes2, prefix, salt, vanity_addr,
                    threads, joined, generated, writes >>

\* lock.write().unwrap() returns: no reader and no writer holds the lock
WorkerWriteLock(w) ==
    /\ workers[w].pc = "write_lock"
    /\ lock.writer = 0
    /\ lock.readers = {}
    /\ lock' = [lock EXCEPT !.writer = w]
    /\ workers' = [workers EXCEPT ![w].pc = "assign"]
    /\ UNCHANGED << call, pc, ret, bytes, bytes2, prefix, salt, vanity_addr,
                    threads, joined, generated, writes >>

\* what the thread assigns: *write_lock = (salt, salt_bytes)
Assigned(wk) == [salt |-> wk.salt, digest |-> Lookup(SaltDigests, wk.salt)]

\* WorkerAssign without the break: the thread goes on sampling
WorkerAssignNoBreak(w) ==
    /\ workers[w].pc = "assign"
    /\ lock.writer = w
    /\ lock' = [lock EXCEPT !.data = Assigned(workers[w]), !.writer = 0]
    /\ workers' = [workers EXCEPT ![w].pc = "sample", ![w].wrote = Bump(@)]
    /\ writes' = writes + 1
    /\ UNCHANGED << call, pc, ret, bytes, bytes2, prefix, salt, vanity_addr,
                    threads, joined, generated >>

\* the assignment under the write lock, drop(write_lock), break
WorkerAssign(w) ==
    /\ workers[w].pc = "assign"
    /\ lock.writer = w
    /\ lock' = [lock EXCEPT !.data = Assigned(workers[w]), !.writer = 0]
    /\ workers' = [workers EXCEPT ![w].pc = "done", ![w].wrote = Bump(@)]
    /\ writes' = writes + 1
    /\ UNCHANGED << call, pc, ret, bytes, bytes2, prefix, salt, vanity_addr,
                    threads, joined, generated >>

WorkerStep(w) ==
    \/ WorkerSample(w)
    \/ WorkerTryReadOk(w)
    \/ WorkerTryReadFail(w)
    \/ WorkerCheck(w)
    \/ WorkerWriteLock(w)
    \/ WorkerAssign(w)

(***************************************************************************)
(* Specifications.                                                         *)
(***************************************************************************)
ThreadCounts == 0..MaxThreads

\* a call is entered by a caller that is in no call; the guard stands
\* before the choice of the arguments
Calls ==
    /\ pc = "idle"
    /\ \/ \E d \in AnyDeployers, s \in Digests : CalcAddrWithBytes(d, s)
       \/ \E d \in AnyDeployers, m \in Materials : CalcAddr(d, m)
       \/ \E d \in Deployers, p \in SearchPrefixes : generate_salt(d, p)
       \/ \E d \in Deployers, sp \in SaltPrefixes, p \in SearchPrefixes :
             generate_salt_prefix(d, sp, p)
       \/ \E d \in MtDeployers, p \in MtPrefixes, n \in ThreadCounts :
             generate_salt_multithread(d, p, n)
       \/ \E d \in MtDeployers, sp \in MtSaltPrefixes, p \in MtPrefixes,
             n \in ThreadCounts :
             generate_salt_prefix_multithread(d, sp, p, n)

Next ==
    \/ Calls
    \/ Sanitize
    \/ SeqIterate
    \/ Spawn
    \/ SpawnEnd
    \/ Join
    \/ ReadResult
    \/ \E w \in Workers : WorkerStep(w)

Spec == Init /\ [][Next]_vars

\* the prefixes given to sanitize_prefix: two runs of up to MaxRun
\* characters each, between optional spaces
PrefixInput(lead, c1, n1, c2, n2, trail) ==
    (((Rep(32, lead) \o Rep(c1, n1)) \o Rep(c2, n2)) \o Rep(32, trail))

NextSanitize ==
    /\ pc = "idle"
    /\ \E lead \in 0..1, c1 \in PrefixAlphabet, n1 \in 0..MaxRun,
          c2 \in PrefixAlphabet, n2 \in 0..MaxRun, trail \in 0..1 :
           SanitizePrefix(PrefixInput(lead, c1, n1, c2, n2, trail))

SpecSanitize == Init /\ [][NextSanitize]_vars

\* the calling thread's steps inside a multithreaded search
CallerStep == Sanitize \/ Spawn \/ SpawnEnd \/ Join \/ ReadResult

\* the thread w samples a candidate whose address starts with the prefix
WorkerSampleMatch(w) ==
    /\ WorkerSample(w)
    /\ starts_with(Lookup(VanityAddrs, << call.deployer, workers'[w].salt >>),
                   prefix)

\* Scheduling: the calling thread and every spawned thread are OS threads
\* that keep running while they can take a step (a thread blocked in
\* lock.write() or in join() can take none); a thread that samples again
\* and again at some time samples a candidate that matches, when there is
\* one.
Fairness ==
    /\ WF_vars(CallerStep)
    /\ \A w \in Workers : WF_vars(WorkerStep(w))
    /\ \A w \in Workers : SF_vars(WorkerSampleMatch(w))

\* the prefix of the searches run under fair scheduling: " 4 ", which two
\* candidates of the sampler match and the others do not
FairPrefixes == {<< 32, 52, 32 >>}

\* generate_salt_prefix_multithread alone, with any thread count
CallsFair ==
    /\ pc = "idle"
    /\ \E d \in MtDeployers, sp \in MtSaltPrefixes, p \in FairPrefixes,
          n \in ThreadCounts :
             generate_salt_prefix_multithread(d, sp, p, n)

NextFair ==
    \/ CallsFair
    \/ CallerStep
    \/ \E w \in Workers : WorkerStep(w)

SpecFair == Init /\ [][NextFair]_vars /\ Fairness

(***************************************************************************)
(* Properties.                                                             *)
(***************************************************************************)
Returned == pc = "returned"

\* s begins with p, character by character
HasPrefix(s, p) == Len(p) <= Len(s) /\ \A i \in 1..Len(p) : s[i] = p[i]

\* the prefix argument as validated: trimmed and lower-cased
Validated(p) == to_lowercase(trim(p))

\* a search returned Ok: a sequential one, or a multithreaded one that was
\* given at least one thread
SearchOk ==
    /\ Returned
    /\ ret.kind = "Ok"
    /\ \/ call.fn \in Sequential
       \/ call.fn \in Multithread /\ call.thread_count >= 1

\* the threads that reached the end of their closure
Done == {w \in Workers : workers[w].pc = "done"}

\* C1. Prefix satisfaction: whenever a sequential search, or a
\* multithreaded search given at least one thread, returns Ok((salt,
\* digest)), the lower-case hex encoding of calc_addr_with_bytes(deployer,
\* digest) starts with the validated prefix, whatever the interleaving of
\* the threads and whichever thread wrote the slot last.
C1_PrefixSatisfaction ==
    SearchOk =>
        HasPrefix(hex_encode(calc_addr_with_bytes(call.deployer, ret.digest)),
                  Validated(call.prefix))

\* C1 witness: a multithreaded search returned after two threads wrote the
\* slot, for a prefix that is not empty.
C1_Witness ==
    /\ SearchOk
    /\ call.fn \in Multithread
    /\ writes >= 2
    /\ Validated(call.prefix) /= << >>

\* C2. Salt/digest consistency: every pair a sequential search, or a
\* multithreaded search given at least one thread, returns has digest =
\* Keccak256(salt bytes), and once written the slot always holds a salt
\* with the digest of that same salt.
C2_SaltDigestConsistency ==
    /\ SearchOk => ret.digest = Keccak256(as_bytes(ret.salt))
    /\ writes >= 1 =>
          lock.data.digest = Keccak256(as_bytes(lock.data.salt))

\* C2 witness: the slot holds one thread's pair while another thread, with
\* another salt, holds the write lock and is about to assign.
C2_Witness ==
    /\ writes >= 1
    /\ \E w \in Workers :
          /\ workers[w].pc = "assign"
          /\ workers[w].salt /= lock.data.salt

\* C3. A multithreaded search returns only once the slot is not empty:
\* for every valid prefix and every thread_count the functions accept, the
\* returned salt is not empty and was written by some thread; it is never
\* the slot's initial value ("", 32 zero bytes).
C3_ReturnsWrittenSlot ==
    (Returned /\ call.fn \in Multithread /\ ret.kind = "Ok") =>
        /\ Len(ret.salt) > 0
        /\ writes >= 1
        /\ << ret.salt, ret.digest >> /= << << >>, Rep(0, DIGEST_LEN) >>

\* C4, as claimed. The slot is written at most once in a multithreaded
\* search.
C4_WrittenAtMostOnce == writes <= 1

\* C4, amended. Every thread writes the slot at most once, and only as the
\* last thing it does, so the slot is written at most thread_count times;
\* it can be written more than once.
C4_WrittenAtMostOncePerThread ==
    /\ writes <= Cardinality(Done)
    /\ writes <= call.thread_count

\* C4 witness: the slot was written twice, by two threads.
C4_Witness ==
    /\ writes = 2
    /\ Cardinality(Done) = 2

\* the ASCII hex digits, and their lower-case forms
IsHex(c) == c \in ((48..57) \cup (65..70) \cup (97..102))
LowerHex(c) == IF c \in 65..70 THEN c + 32 ELSE c

\* sanitize_prefix returned for the prefix p
Sanitized == Returned /\ call.fn = "sanitize_prefix"

\* the three cases of the validation boundary, for a trimmed prefix t whose
\* length is n
Boundary(t, n) ==
    /\ n > 20 => (ret.kind = "Err" /\ ret.err = "PrefixTooLong")
    /\ (n <= 20 /\ \E i \in 1..Len(t) : ~IsHex(t[i])) =>
          (ret.kind = "Err" /\ ret.err = "PrefixNotHexEncoded")
    /\ (n <= 20 /\ \A i \in 1..Len(t) : IsHex(t[i])) =>
          (ret.kind = "Val" /\ ret.val = [i \in 1..Len(t) |-> LowerHex(t[i])])

ValidPrefix(p) ==
    /\ str_len(trim(p)) <= 20
    /\ \A i \in 1..Len(trim(p)) : IsHex(trim(p)[i])

InSearch == call.fn \in (Sequential \cup Multithread)

\* C6. Validation errors are the only errors and come before any search
\* work: with an invalid prefix a search returns the validation error and
\* no candidate is ever sampled, no thread spawned, the slot never written;
\* with a valid prefix no search ever returns an Err.
C6_ErrorsOnlyBeforeSearch ==
    InSearch =>
        /\ ~ValidPrefix(call.prefix) =>
              /\ generated = 0
              /\ threads = 0
              /\ writes = 0
              /\ lock.data = EmptySlot
              /\ \A w \in Workers : workers[w].pc = "unspawned"
              /\ Returned => ret.kind = "Err"
        /\ ValidPrefix(call.prefix) => ret.kind /= "Err"
        /\ ret.kind = "Err" =>
              ret.err \in {"PrefixTooLong", "PrefixNotHexEncoded"}

\* C6 witness: a multithreaded search asked for threads returned an Err.
C6_Witness ==
    /\ Returned
    /\ call.fn \in Multithread
    /\ call.thread_count >= 1
    /\ ret.kind = "Err"

\* C7. Join semantics: a multithreaded search reads the slot for its
\* return value only after every spawned thread has terminated; no thread
\* writes after that read and the returned pair is the slot's final value.
C7_ReadAfterJoin ==
    (Returned /\ call.fn \in Multithread /\ ret.kind = "Ok") =>
        /\ threads = call.thread_count
        /\ joined = threads
        /\ \A w \in 1..threads : workers[w].pc = "done"
        /\ lock.writer = 0
        /\ ret.salt = lock.data.salt
        /\ ret.digest = lock.data.digest

\* C7 witness: generate_salt_prefix_multithread returned the slot after
\* its two threads ended, one of them at least having written.
C7_Witness ==
    /\ Returned
    /\ call.fn = "generate_salt_prefix_multithread"
    /\ ret.kind = "Ok"
    /\ threads >= 2
    /\ writes >= 1
    /\ ret.salt = lock.data.salt

\* C8. Material/digest equivalence: calc_addr(d, m) =
\* calc_addr_with_bytes(d, Keccak256(m)) for every deployer d and salt
\* material m; in particular the address of the salt string a search found
\* is the address of the digest returned with it.
C8_MaterialDigestEquivalence ==
    /\ (Returned /\ call.fn = "calc_addr") =>
          ret.val = calc_addr_with_bytes(call.deployer, Keccak256(call.salt))
    /\ (Returned /\ ret.kind = "Ok"
          /\ (call.fn \in Sequential \/ (call.fn \in Multithread /\ writes >= 1))) =>
          calc_addr(call.deployer, as_bytes(ret.salt)) =
              calc_addr_with_bytes(call.deployer, ret.digest)

\* C8 witness: calc_addr returned for a 20-byte deployer and a material of
\* two bytes or more.
C8_Witness ==
    /\ Returned
    /\ call.fn = "calc_addr"
    /\ Len(call.deployer) = 20
    /\ Len(call.salt) >= 2

\* C9. Two-stage layout: for a 20-byte deployer and a 32-byte digest the
\* first buffer is 0xFF, the deployer, the digest, the proxy bytecode
\* digest (85 bytes), the second buffer is 0xD6, 0x94, bytes 12..32 of the
\* first buffer's hash, 0x01 (23 bytes), and the address is bytes 12..32 of
\* the second buffer's hash.
C9_TwoStageLayout ==
    (Returned /\ call.fn = "calc_addr_with_bytes"
        /\ Len(call.deployer) = 20 /\ Len(call.salt) = 32) =>
        /\ Len(bytes) = 85
        /\ bytes[1] = 255
        /\ SubSeq(bytes, 2, 21) = call.deployer
        /\ SubSeq(bytes, 22, 53) = call.salt
        /\ SubSeq(bytes, 54, 85) = KECCAK256_PROXY_CHILD_BYTECODE
        /\ Len(bytes2) = 23
        /\ bytes2[1] = 214
        /\ bytes2[2] = 148
        /\ SubSeq(bytes2, 3, 22) = SubSeq(Keccak256(bytes), 13, 32)
        /\ bytes2[23] = 1
        /\ ret.val = SubSeq(Keccak256(bytes2), 13, 32)
        /\ Len(ret.val) = 20

\* C9 witness: calc_addr_with_bytes returned for a 20-byte deployer and a
\* digest that is not all zeros.
C9_Witness ==
    /\ Returned
    /\ call.fn = "calc_addr_with_bytes"
    /\ Len(call.deployer) = 20
    /\ Len(call.salt) = 32
    /\ \E i \in 1..32 : call.salt[i] /= 0

\* the prefix is empty or whitespace only
Blank(p) == \A i \in 1..Len(p) : p[i] = 32

\* C10. Empty prefix: "" and whitespace-only prefixes validate to the
\* empty prefix, and a sequential search then returns Ok after sampling
\* exactly one candidate.
C10_EmptyPrefixFirstCandidate ==
    (call.fn \in Sequential /\ Blank(call.prefix)) =>
        /\ ret.kind /= "Err"
        /\ pc /= "sanitize" => prefix = << >>
        /\ pc = "loop" => generated = 0
        /\ Returned => (ret.kind = "Ok" /\ generated = 1)

\* C10 witness: generate_salt_prefix returned for the prefix " " with one
\* candidate sampled.
C10_Witness ==
    /\ Returned
    /\ call.fn = "generate_salt_prefix"
    /\ call.prefix = << 32 >>
    /\ ret.kind = "Ok"
    /\ generated = 1

\* some candidate of the sampler matches the prefix
MatchExists ==
    \E s \in Candidates(call) :
        starts_with(VanityAddr(call.deployer, s), Validated(call.prefix))

\* a multithreaded search with at least one thread, a valid prefix and a
\* candidate that matches it is about to spawn its threads
Searching ==
    /\ call.fn \in Multithread
    /\ pc = "spawn"
    /\ threads = 0
    /\ call.thread_count >= 1
    /\ ValidPrefix(call.prefix)
    /\ MatchExists

\* the threads of the call have all ended, were all joined, and the call
\* returned
AllTerminated ==
    /\ Returned
    /\ joined = call.thread_count
    /\ \A w \in 1..call.thread_count : workers[w].pc = "done"

\* C11. Deadlock-free termination of the multithreaded search: with at
\* least one thread and a valid prefix, under fair scheduling and a sampler
\* that in the end yields a matching candidate, every thread terminates,
\* the joins complete and the call returns; a thread waiting for the write
\* lock gets it and ends; a read guard is held only between try_read and
\* the checks under it, never by a thread that waits for the write lock,
\* holds it, or starts another iteration.
C11_DeadlockFreeTermination ==
    /\ [](\A w \in Workers : w \in lock.readers => workers[w].pc = "check")
    /\ \A w \in Workers :
          (workers[w].pc = "write_lock") ~> (workers[w].pc = "done")
    /\ Searching ~> AllTerminated

\* C11 witness: a search with two threads returned after a thread that did
\* not write ended with a candidate that does not match, the other having
\* written.
C11_Witness ==
    /\ AllTerminated
    /\ call.fn \in Multithread
    /\ call.thread_count = 2
    /\ writes = 1
    /\ \E w \in Workers :
          ~starts_with(
              Lookup(VanityAddrs, << call.deployer, workers[w].salt >>),
              prefix)

\* the threads that wait for the write lock or hold it
Writers == {w \in Workers : workers[w].pc \in {"write_lock", "assign"}}

\* a step in which the thread w learns what its iteration sees of the slot
Checks(w) ==
    /\ workers'[w].obs /= workers[w].obs
    /\ workers'[w].obs /= "none"

\* C12. Prompt termination once a winner exists: once the slot is not
\* empty, a thread that checks the slot (try_read fails, or the slot is
\* seen full) ends at that check, whether its candidate matches or not; so
\* after the first write no thread begins more than one further iteration,
\* and the threads that still write are threads whose iteration began
\* before the first write and saw the slot empty with a matching candidate.
C12_PromptTermination ==
    /\ [][\A w \in Workers :
            (writes >= 1 /\ Checks(w)) =>
                /\ workers'[w].obs \in {"failed", "full"}
                /\ workers'[w].pc = "done"]_vars
    /\ [](\A w \in Workers : workers[w].late <= 1)
    /\ [](writes >= 1 =>
            \A w \in Writers :
                workers[w].late = 0 /\ workers[w].obs = "hit")

\* C12 witness: after the first write a thread began one more iteration
\* with a candidate that does not match, saw the slot full and ended.
C12_Witness ==
    \E w \in Workers :
        /\ writes >= 1
        /\ workers[w].late = 1
        /\ workers[w].pc = "done"
        /\ workers[w].obs = "full"
        /\ ~starts_with(
              Lookup(VanityAddrs, << call.deployer, workers[w].salt >>),
              prefix)

\* C13. A thread writes the slot only in an iteration in which try_read
\* succeeded, the slot was seen empty and its candidate matched the prefix:
\* a thread whose try_read failed or that saw the slot full has ended
\* without writing, a thread whose candidate did not match goes on to its
\* next iteration without writing; every thread writes at most once, so
\* the slot is assigned at most thread_count times in a call.
C13_WritesOnlyAfterEmptyMatch ==
    /\ \A w \in Workers :
          /\ w \in Writers => workers[w].obs = "hit"
          /\ workers[w].wrote >= 1 =>
                (workers[w].obs = "hit" /\ workers[w].pc = "done")
          /\ workers[w].obs = "hit" =>
                starts_with(
                    Lookup(VanityAddrs, << call.deployer, workers[w].salt >>),
                    prefix)
          /\ workers[w].obs \in {"failed", "full"} =>
                (workers[w].pc = "done" /\ workers[w].wrote = 0)
          /\ workers[w].obs = "miss" =>
                (workers[w].pc = "sample" /\ workers[w].wrote = 0)
          /\ workers[w].wrote <= 1
    /\ writes <= call.thread_count

\* C13 witness: one thread wrote; another, whose candidate matches too,
\* ended without writing because its try_read failed.
C13_Witness ==
    \E w, v \in Workers :
        /\ workers[w].wrote = 1
        /\ workers[v].pc = "done"
        /\ workers[v].obs = "failed"
        /\ workers[v].wrote = 0
        /\ starts_with(
              Lookup(VanityAddrs, << call.deployer, workers[v].salt >>),
              prefix)

\* the characters of the Alphanumeric distribution: 0-9, A-Z, a-z
IsAlphanumeric(c) == c \in ((48..57) \cup (65..90) \cup (97..122))

\* s is the literal l followed by exactly n alphanumeric characters
SaltShape(s, l, n) ==
    /\ HasPrefix(s, l)
    /\ Len(s) = Len(l) + n
    /\ \A i \in (Len(l) + 1)..Len(s) : IsAlphanumeric(s[i])

\* a search returned a salt that was found: by a sequential search, or
\* written by a thread of a multithreaded one
FoundSalt ==
    /\ Returned
    /\ ret.kind = "Ok"
    /\ \/ call.fn \in Sequential
       \/ call.fn \in Multithread /\ writes >= 1

\* C14. Shape of the returned salt: from generate_salt and
\* generate_salt_multithread, which take no salt prefix, exactly 10
\* alphanumeric characters; from generate_salt_prefix and
\* generate_salt_prefix_multithread the salt prefix followed by exactly 7
\* alphanumeric characters.
C14_SaltShape ==
    FoundSalt =>
        IF call.fn \in {"generate_salt", "generate_salt_multithread"}
        THEN SaltShape(ret.salt, << >>, SALT_LEN)
        ELSE SaltShape(ret.salt, call.salt_prefix, SALT_SUFFIX_LEN)

=============================================================================
